---------------------------- MODULE Spec2Model ----------------------------
(***************************************************************************)
(* Model of include/wave_loader.hpp: the WAVE loader LoadeWaveFile and its *)
(* helpers is_big_endian and convert_to_int.                               *)
(*                                                                         *)
(* A byte is a number in 0..255, a byte span is a sequence of bytes        *)
(* (1-based here, 0-based in the source).  int is 32 bits, short 16 bits,  *)
(* both two's complement.  The ifstream is its byte content `stream`, its  *)
(* get position `pos`, its failbit and its gcount.  One action models each *)
(* read of LoadeWaveFile together with the assignment that follows it.     *)
(***************************************************************************)
EXTENDS Integers, Sequences, FiniteSets

VARIABLES
    stream,      \* content of the file behind file_path, as a byte sequence
    host,        \* byte order of the CPU running the code: "little" or "big"
    pos,         \* get position of `file`: number of bytes consumed so far
    failed_at,   \* "none" while file.good(); else the step whose read set failbit
    gcount,      \* bytes extracted by the last file.read
    read_from,   \* get position at which the last file.read started
    buffer,      \* char buffer[4]
    wave_file,   \* the WaveFile object behind the pointer wave_file, minus data
    data_alloc,  \* size of the array wave_file->data points to; -1 for nullptr
    data,        \* the bytes file.read stored in wave_file->data (a prefix of it)
    extra_size,  \* the local _extra_size
    warned,      \* whether "This is not valid WAV file!" was printed
    pc,          \* the statement LoadeWaveFile executes next
    result,      \* "running", "returned" (a WaveFile*) or "threw" (an exception left new[])
    ret          \* last call of convert_to_int made on its own: [len, a]

vars == <<stream, host, pos, failed_at, gcount, read_from, buffer, wave_file,
          data_alloc, data, extra_size, warned, pc, result, ret>>

-----------------------------------------------------------------------------
(* Bounds of the model *)

\* longest payload of an input stream
MaxPayload == 8

\* longest extension body of an input stream
MaxExtra == 2

-----------------------------------------------------------------------------
(* Bytes and integers *)

\* a char seen as signed char
Signed8(b) == IF b >= 128 THEN b - 256 ELSE b

\* the object representation of the int v on a host, lowest address first
MemoryOfInt(big, v) ==
    LET le == <<v % 256, (v \div 256) % 256, (v \div 65536) % 256,
                (v \div 16777216) % 256>>
    IN  IF big THEN <<le[4], le[3], le[2], le[1]>> ELSE le

\* the int whose object representation is mem on a host
IntOfMemory(big, mem) ==
    IF big
    THEN mem[4] + 256 * mem[3] + 65536 * mem[2] + 16777216 * Signed8(mem[1])
    ELSE mem[1] + 256 * mem[2] + 65536 * mem[3] + 16777216 * Signed8(mem[4])

\* int a = 1; return !((char*)&a)[0];
is_big_endian_on(big) == IF MemoryOfInt(big, 1)[1] = 0 THEN 1 ELSE 0

\* convert_to_int with both loops writing a[i]: the byte swap forgotten
convert_to_int_noswap(big, buf, len) ==
    IntOfMemory(big, [k \in 1..4 |-> IF k <= len THEN buf[k] ELSE 0])

\* convert_to_int(buffer, len) on a little-endian (big = FALSE) or a
\* big-endian host: a = 0, then ((char*)&a)[i] = buffer[i] or
\* ((char*)&a)[3 - i] = buffer[i] for i in 0..len-1
convert_to_int_on(big, buf, len) ==
    LET a == IF is_big_endian_on(big) = 0
             THEN [k \in 1..4 |-> IF k <= len THEN buf[k] ELSE 0]
             ELSE [k \in 1..4 |-> IF 5 - k <= len THEN buf[5 - k] ELSE 0]
    IN  IntOfMemory(big, a)

convert_to_int(buf, len) == convert_to_int_on(host = "big", buf, len)

\* the conversion int -> short of an assignment to a short field
ToShort(v) == ((v + 32768) % 65536) - 32768

\* strncmp(a, b, n): 0 when the first n chars agree (or agree up to a NUL)
RECURSIVE strncmp_from(_, _, _, _)
strncmp_from(a, b, n, i) ==
    IF i > n THEN 0
    ELSE IF a[i] # b[i] THEN a[i] - b[i]
    ELSE IF a[i] = 0 THEN 0
    ELSE strncmp_from(a, b, n, i + 1)

strncmp(a, b, n) == strncmp_from(a, b, n, 1)

\* the string literals "RIFF" and "data" of LoadeWaveFile, NUL included
RIFF == <<82, 73, 70, 70, 0>>
DATA == <<100, 97, 116, 97, 0>>


-----------------------------------------------------------------------------
(* The input files *)

Min(a, b) == IF a < b THEN a ELSE b

\* a 32-bit and a 16-bit value as the bytes of a WAVE file (little-endian)
LE32(v) == MemoryOfInt(FALSE, v)
LE16(v) == SubSeq(MemoryOfInt(FALSE, v), 1, 2)

Zeros(n) == [i \in 1..n |-> 0]

\* the tags of the canonical WAVE format, as the struct's comments give them
TagRIFF == <<82, 73, 70, 70>>
TagRIFX == <<82, 73, 70, 88>>
TagWAVE == <<87, 65, 86, 69>>
TagFmt  == <<102, 109, 116, 32>>
TagData == <<100, 97, 116, 97>>
TagLIST == <<76, 73, 83, 84>>

\* AudioFormat .. BitsPerSample of the "fmt " subchunk
FmtFields ==
    { [audio_format |-> 1, num_channels |-> 1, sample_rate |-> 8000,
       byte_rate |-> 8000, block_align |-> 1, bits_per_sample |-> 8],
      [audio_format |-> -2, num_channels |-> 2, sample_rate |-> 44100,
       byte_rate |-> 176400, block_align |-> 4, bits_per_sample |-> 16] }

FmtBody(f) ==
    LE16(f.audio_format) \o LE16(f.num_channels) \o LE32(f.sample_rate)
    \o LE32(f.byte_rate) \o LE16(f.block_align) \o LE16(f.bits_per_sample)

\* the sound data: n bytes 1, 2, 3, ... or n bytes 255, 254, 253, ...
Payloads == { [i \in 1..n |-> IF up THEN i ELSE 256 - i] :
                n \in 0..MaxPayload, up \in BOOLEAN }

\* the "data" subchunk; declared is its Subchunk2Size field
DataChunk(declared, payload) == TagData \o LE32(declared) \o payload

\* what follows BitsPerSample before "data": nothing, the two bytes of an
\* 18-byte "fmt " subchunk, or a whole chunk (tag, length, body)
Extensions ==
    { [kind |-> "none", bytes |-> <<>>, fmt_size |-> 16],
      [kind |-> "cbsize", bytes |-> <<0, 0>>, fmt_size |-> 18] }
    \cup { [kind |-> "chunk", bytes |-> TagLIST \o LE32(n) \o Zeros(n),
            fmt_size |-> 16] : n \in 0..MaxExtra }
    \cup { [kind |-> "chunk", bytes |-> TagLIST \o LE32(-1), fmt_size |-> 16] }

\* a file in the canonical layout (with_size) or with the Subchunk1Size
\* field left out, which is the layout LoadeWaveFile reads
WaveBytes(magic, with_size, f, ext, declared, payload) ==
    LET rest == TagWAVE \o TagFmt
                \o (IF with_size THEN LE32(ext.fmt_size) ELSE <<>>)
                \o FmtBody(f) \o ext.bytes \o DataChunk(declared, payload)
    IN  magic \o LE32(Len(rest)) \o rest

\* the minimal mono 8-bit PCM file, its ChunkSize field holding 44
MinimalMono(magic) ==
    magic \o LE32(44) \o TagWAVE \o TagFmt \o LE32(16)
    \o FmtBody([audio_format |-> 1, num_channels |-> 1, sample_rate |-> 8000,
                byte_rate |-> 8000, block_align |-> 1, bits_per_sample |-> 8])
    \o DataChunk(4, <<1, 2, 3, 4>>)

WholeFiles ==
    { MinimalMono(magic) : magic \in {TagRIFF, TagRIFX} }
    \cup
    { WaveBytes(magic, with_size, f, ext, declared, payload) :
        magic \in {TagRIFF, TagRIFX}, with_size \in BOOLEAN, f \in FmtFields,
        ext \in Extensions,
        declared \in {-1}, payload \in {<<>>} }
    \cup
    { WaveBytes(magic, with_size, f, ext, Len(payload), payload) :
        magic \in {TagRIFF, TagRIFX}, with_size \in BOOLEAN, f \in FmtFields,
        ext \in Extensions, payload \in Payloads }

\* every file, whole or cut off at any length
InputStreams == UNION { { SubSeq(s, 1, n) : n \in 0..Len(s) } : s \in WholeFiles }

\* what char buffer[4] may hold before the first read stores into it
UninitBuffers == { <<0, 0, 0, 0>>, TagRIFF, <<255, 128, 1, 127>> }

\* the bytes convert_to_int is applied to on its own
ByteSamples == {0, 1, 127, 128, 255}

\* new WaveFile(): every member value-initialised
NewWaveFile ==
    [chunk_id |-> 0, chunk_size |-> 0, format |-> 0, subchunk_1_id |-> 0,
     subchunk_1_size |-> 0, audio_format |-> 0, num_channels |-> 0,
     sample_rate |-> 0, byte_rate |-> 0, block_align |-> 0,
     bits_per_sample |-> 0, subchunk_2_id |-> 0, subchunk_2_size |-> 0]

\* the state in which LoadeWaveFile has made wave_file and opened file
Start ==
    /\ pos = 0
    /\ gcount = 0
    /\ read_from = 0
    /\ wave_file = NewWaveFile
    /\ data_alloc = -1
    /\ data = <<>>
    /\ extra_size = 0
    /\ warned = FALSE
    /\ result = "running"
    /\ ret = [len |-> 0, a |-> 0]

Init ==
    /\ stream \in InputStreams
    /\ host \in {"little", "big"}
    /\ buffer \in UninitBuffers
    /\ failed_at \in (IF stream = <<>> THEN {"none", "open"} ELSE {"none"})
    /\ pc = "chunk_id"
    /\ Start

-----------------------------------------------------------------------------
(* std::istream::read *)

\* the number of bytes file.read(s, n) extracts: none once failbit is set,
\* else n or what is left of the file
Extracted(n) == IF failed_at # "none" THEN 0 ELSE Min(n, Len(stream) - pos)

\* file.read(s, n) issued by step: the stream's side of it.  A read that
\* extracts fewer than n bytes sets failbit, and every later read is a no-op
file_read(step, n) ==
    /\ read_from' = pos
    /\ gcount' = Extracted(n)
    /\ pos' = pos + Extracted(n)
    /\ failed_at' = IF failed_at = "none" /\ Extracted(n) < n
                    THEN step ELSE failed_at

\* buffer after file.read(buffer, n): the extracted bytes, then what was there
BufferAfter(n) ==
    [k \in 1..4 |-> IF k <= Extracted(n) THEN stream[pos + k] ELSE buffer[k]]

ShortFields == {"audio_format", "num_channels", "block_align", "bits_per_sample"}

\* wave_file->field = v
Store(field, v) ==
    [wave_file EXCEPT ![field] = IF field \in ShortFields THEN ToShort(v) ELSE v]

\* file.read(buffer, n); wave_file->field = convert_to_int(buffer, n);
ReadField(step, n, field, next) ==
    /\ file_read(step, n)
    /\ buffer' = BufferAfter(n)
    /\ wave_file' = Store(field, convert_to_int(buffer', n))
    /\ pc' = next
    /\ UNCHANGED <<stream, host, data_alloc, data, extra_size, warned, result, ret>>

-----------------------------------------------------------------------------
(* LoadeWaveFile, statement by statement *)

ReadChunkId ==
    /\ pc = "chunk_id"
    /\ file_read("chunk_id", 4)
    /\ buffer' = BufferAfter(4)
    /\ warned' = (strncmp(buffer', RIFF, 4) # 0)
    /\ wave_file' = Store("chunk_id", convert_to_int(buffer', 4))
    /\ pc' = "chunk_size"
    /\ UNCHANGED <<stream, host, data_alloc, data, extra_size, result, ret>>

ReadChunkSize ==
    /\ pc = "chunk_size"
    /\ ReadField("chunk_size", 4, "chunk_size", "format")

ReadFormat ==
    /\ pc = "format"
    /\ ReadField("format", 4, "format", "subchunk_1_id")

ReadSubchunk1Id ==
    /\ pc = "subchunk_1_id"
    /\ ReadField("subchunk_1_id", 4, "subchunk_1_id", "audio_format")

\* the read of audio_format had the loader read Subchunk1Size first
ReadAudioFormat_after_size ==
    LET k4 == Extracted(4)
        k2 == IF k4 < 4 THEN 0 ELSE Min(2, Len(stream) - (pos + 4))
        b4 == BufferAfter(4)
        b2 == [k \in 1..4 |-> IF k <= k2 THEN stream[pos + 4 + k] ELSE b4[k]]
    IN  /\ pc = "audio_format"
        /\ read_from' = pos + k4
        /\ gcount' = k2
        /\ pos' = pos + k4 + k2
        /\ failed_at' = IF failed_at = "none" /\ k4 + k2 < 6
                        THEN "audio_format" ELSE failed_at
        /\ buffer' = b2
        /\ wave_file' = [wave_file EXCEPT
                           !.subchunk_1_size = convert_to_int(b4, 4),
                           !.audio_format = ToShort(convert_to_int(b2, 2))]
        /\ pc' = "num_channels"
        /\ UNCHANGED <<stream, host, data_alloc, data, extra_size, warned,
                       result, ret>>

ReadAudioFormat ==
    /\ pc = "audio_format"
    /\ ReadField("audio_format", 2, "audio_format", "num_channels")

ReadNumChannels ==
    /\ pc = "num_channels"
    /\ ReadField("num_channels", 2, "num_channels", "sample_rate")

ReadSampleRate ==
    /\ pc = "sample_rate"
    /\ ReadField("sample_rate", 4, "sample_rate", "byte_rate")

ReadByteRate ==
    /\ pc = "byte_rate"
    /\ ReadField("byte_rate", 4, "byte_rate", "block_align")

ReadBlockAlign ==
    /\ pc = "block_align"
    /\ ReadField("block_align", 2, "block_align", "bits_per_sample")

ReadBitsPerSample ==
    /\ pc = "bits_per_sample"
    /\ ReadField("bits_per_sample", 2, "bits_per_sample", "lookahead")

\* file.read(buffer, 4); if(strncmp(buffer, "data", 4) != 0): into the branch
LookaheadNotData ==
    /\ pc = "lookahead"
    /\ file_read("lookahead", 4)
    /\ buffer' = BufferAfter(4)
    /\ strncmp(buffer', DATA, 4) # 0
    /\ pc' = "extra_size"
    /\ UNCHANGED <<stream, host, wave_file, data_alloc, data, extra_size,
                   warned, result, ret>>

\* ... else: wave_file->subchunk_2_id = convert_to_int(buffer, 4);
LookaheadData ==
    /\ pc = "lookahead"
    /\ file_read("lookahead", 4)
    /\ buffer' = BufferAfter(4)
    /\ strncmp(buffer', DATA, 4) = 0
    /\ wave_file' = Store("subchunk_2_id", convert_to_int(buffer', 4))
    /\ pc' = "subchunk_2_size"
    /\ UNCHANGED <<stream, host, data_alloc, data, extra_size, warned, result, ret>>

\* the read of _extra_size had the loader seek back over the lookahead first
ReadExtraSize_rewind ==
    LET from == IF failed_at # "none" THEN pos ELSE pos - 4
        k == IF failed_at # "none" THEN 0 ELSE Min(4, Len(stream) - from)
        b == [i \in 1..4 |-> IF i <= k THEN stream[from + i] ELSE buffer[i]]
    IN  /\ pc = "extra_size"
        /\ read_from' = from
        /\ gcount' = k
        /\ pos' = from + k
        /\ failed_at' = IF failed_at = "none" /\ k < 4 THEN "extra_size"
                        ELSE failed_at
        /\ buffer' = b
        /\ extra_size' = convert_to_int(b, 4)
        /\ pc' = "alloc_extra"
        /\ UNCHANGED <<stream, host, wave_file, data_alloc, data, warned,
                       result, ret>>

\* file.read(buffer, 4); int _extra_size = convert_to_int(buffer, 4);
ReadExtraSize ==
    /\ pc = "extra_size"
    /\ file_read("extra_size", 4)
    /\ buffer' = BufferAfter(4)
    /\ extra_size' = convert_to_int(buffer', 4)
    /\ pc' = "alloc_extra"
    /\ UNCHANGED <<stream, host, wave_file, data_alloc, data, warned, result, ret>>

\* char * _extra_data = new char[_extra_size];  new[] throws
\* std::bad_array_new_length for a negative size and may throw std::bad_alloc
\* for any size; the exception leaves LoadeWaveFile
AllocExtra ==
    /\ pc = "alloc_extra"
    /\ \/ /\ extra_size >= 0
          /\ pc' = "extra_data"
          /\ UNCHANGED result
       \/ /\ pc' = "done"
          /\ result' = "threw"
    /\ UNCHANGED <<stream, host, pos, failed_at, gcount, read_from, buffer,
                   wave_file, data_alloc, data, extra_size, warned, ret>>

\* file.read(_extra_data, _extra_size);
ReadExtraData ==
    /\ pc = "extra_data"
    /\ file_read("extra_data", extra_size)
    /\ pc' = "subchunk_2_id"
    /\ UNCHANGED <<stream, host, buffer, wave_file, data_alloc, data,
                   extra_size, warned, result, ret>>

\* file.read(buffer, 4); wave_file->subchunk_2_id = ...; delete _extra_data;
\* (the delete, written without [], releases the array of chars and changes
\* nothing LoadeWaveFile reads afterwards)
ReadSubchunk2Id ==
    /\ pc = "subchunk_2_id"
    /\ ReadField("subchunk_2_id", 4, "subchunk_2_id", "subchunk_2_size")

ReadSubchunk2Size ==
    /\ pc = "subchunk_2_size"
    /\ ReadField("subchunk_2_size", 4, "subchunk_2_size", "alloc_data")

\* wave_file->data = new char[wave_file->subchunk_2_size];
AllocData ==
    /\ pc = "alloc_data"
    /\ \/ /\ wave_file.subchunk_2_size >= 0
          /\ data_alloc' = wave_file.subchunk_2_size
          /\ pc' = "data"
          /\ UNCHANGED result
       \/ /\ pc' = "done"
          /\ result' = "threw"
          /\ UNCHANGED data_alloc
    /\ UNCHANGED <<stream, host, pos, failed_at, gcount, read_from, buffer,
                   wave_file, data, extra_size, warned, ret>>

\* file.read(wave_file->data, wave_file->subchunk_2_size);
ReadData ==
    /\ pc = "data"
    /\ file_read("data", wave_file.subchunk_2_size)
    /\ data' = SubSeq(stream, pos + 1, pos + Extracted(wave_file.subchunk_2_size))
    /\ pc' = "return"
    /\ UNCHANGED <<stream, host, buffer, wave_file, data_alloc, extra_size,
                   warned, result, ret>>

\* return wave_file;
Return ==
    /\ pc = "return"
    /\ pc' = "done"
    /\ result' = "returned"
    /\ UNCHANGED <<stream, host, pos, failed_at, gcount, read_from, buffer,
                   wave_file, data_alloc, data, extra_size, warned, ret>>

Next ==
    \/ ReadChunkId
    \/ ReadChunkSize
    \/ ReadFormat
    \/ ReadSubchunk1Id
    \/ ReadAudioFormat
    \/ ReadNumChannels
    \/ ReadSampleRate
    \/ ReadByteRate
    \/ ReadBlockAlign
    \/ ReadBitsPerSample
    \/ LookaheadNotData
    \/ LookaheadData
    \/ ReadExtraSize
    \/ AllocExtra
    \/ ReadExtraData
    \/ ReadSubchunk2Id
    \/ ReadSubchunk2Size
    \/ AllocData
    \/ ReadData
    \/ Return

Spec == Init /\ [][Next]_vars

-----------------------------------------------------------------------------
(* convert_to_int on its own *)

InitConvert ==
    /\ stream = <<>>
    /\ host \in {"little", "big"}
    /\ buffer \in [1..4 -> ByteSamples]
    /\ failed_at = "none"
    /\ pc = "convert"
    /\ Start

\* ret = convert_to_int(buffer, len)
Convert(len) ==
    /\ ret' = [len |-> len, a |-> convert_to_int(buffer, len)]
    /\ UNCHANGED <<stream, host, pos, failed_at, gcount, read_from, buffer,
                   wave_file, data_alloc, data, extra_size, warned, pc, result>>

Convert2 ==
    /\ pc = "convert"
    /\ Convert(2)

Convert4 ==
    /\ pc = "convert"
    /\ Convert(4)

NextConvert == Convert2 \/ Convert4

SpecConvert == InitConvert /\ [][NextConvert]_vars

-----------------------------------------------------------------------------
(* What the claims are stated with: the binary layout of the specification *)

\* the len bytes of the file at offset off (0-based, as in the layout table)
At(off, len) == SubSeq(stream, off + 1, off + len)

\* a 2- or 4-byte span read little-endian: byte i weighted by 256^i, the sum
\* taken as a signed 32-bit integer
LittleEndian(span) ==
    IF Len(span) = 2
    THEN span[1] + 256 * span[2]
    ELSE span[1] + 256 * span[2] + 65536 * span[3]
         + 16777216 * (IF span[4] >= 128 THEN span[4] - 256 ELSE span[4])

\* a 2-byte span as a little-endian int16
Int16(span) ==
    LET v == span[1] + 256 * span[2] IN IF v >= 32768 THEN v - 65536 ELSE v

Int32(span) == LittleEndian(span)

\* a whole file in the layout table's form: 16-byte "fmt " subchunk, no
\* extension, the payload running to the end of the file
IsCanonical ==
    /\ Len(stream) >= 44
    /\ At(0, 4) = TagRIFF
    /\ At(8, 4) = TagWAVE
    /\ At(12, 4) = TagFmt
    /\ Int32(At(16, 4)) = 16
    /\ At(36, 4) = TagData
    /\ Int32(At(40, 4)) = Len(stream) - 44

\* a whole file with an 18-byte "fmt " subchunk: two bytes 00 00 between
\* BitsPerSample and "data"
IsExt18 ==
    /\ Len(stream) >= 46
    /\ At(0, 4) = TagRIFF
    /\ At(8, 4) = TagWAVE
    /\ At(12, 4) = TagFmt
    /\ Int32(At(16, 4)) = 18
    /\ At(36, 2) = <<0, 0>>
    /\ At(38, 4) = TagData
    /\ Int32(At(42, 4)) = Len(stream) - 46

\* the 44 header bytes a record serialises to in the layout table's order
SerializeHeader(w) ==
    LE32(w.chunk_id) \o LE32(w.chunk_size) \o LE32(w.format)
    \o LE32(w.subchunk_1_id) \o LE32(w.subchunk_1_size)
    \o LE16(w.audio_format) \o LE16(w.num_channels) \o LE32(w.sample_rate)
    \o LE32(w.byte_rate) \o LE16(w.block_align) \o LE16(w.bits_per_sample)
    \o LE32(w.subchunk_2_id) \o LE32(w.subchunk_2_size)

\* the statements of LoadeWaveFile in program order
Steps == <<"chunk_id", "chunk_size", "format", "subchunk_1_id", "audio_format",
           "num_channels", "sample_rate", "byte_rate", "block_align",
           "bits_per_sample", "lookahead", "extra_size", "alloc_extra",
           "extra_data", "subchunk_2_id", "subchunk_2_size", "alloc_data",
           "data", "return", "done">>

StepIndex(s) == CHOOSE i \in 1..Len(Steps) : Steps[i] = s

\* the statements that call file.read
ReadSteps == { Steps[i] : i \in 1..Len(Steps) }
             \ {"alloc_extra", "alloc_data", "return", "done"}

\* the reads of a field of fixed length, and the two whose length is read
\* from the file
LengthPrefixedReads == {"extra_data", "data"}
FixedLengthReads == ReadSteps \ LengthPrefixedReads

-----------------------------------------------------------------------------
(* The claims *)

\* C1: for a well-formed canonical file the returned record holds, in each
\* field, the little-endian decode of the bytes at that field's offset in the
\* layout table, and the payload is the bytes from offset 44 on.
C1_FieldsAtLayoutOffsets ==
    (result = "returned" /\ IsCanonical) =>
        /\ wave_file.chunk_id = Int32(At(0, 4))
        /\ wave_file.chunk_size = Int32(At(4, 4))
        /\ wave_file.format = Int32(At(8, 4))
        /\ wave_file.subchunk_1_id = Int32(At(12, 4))
        /\ wave_file.subchunk_1_size = Int32(At(16, 4))
        /\ wave_file.audio_format = Int16(At(20, 2))
        /\ wave_file.num_channels = Int16(At(22, 2))
        /\ wave_file.sample_rate = Int32(At(24, 4))
        /\ wave_file.byte_rate = Int32(At(28, 4))
        /\ wave_file.block_align = Int16(At(32, 2))
        /\ wave_file.bits_per_sample = Int16(At(34, 2))
        /\ wave_file.subchunk_2_id = Int32(At(36, 4))
        /\ wave_file.subchunk_2_size = Int32(At(40, 4))
        /\ data = SubSeq(stream, 45, Len(stream))

\* C2: a file whose first 4 bytes are not "RIFF" is rejected: the loader
\* does not read on and return a record for it.
C2_RiffMismatchFails ==
    (Len(stream) >= 4 /\ At(0, 4) # TagRIFF) => result # "returned"

\* C3: a file that ends inside a field of fixed length is rejected: no
\* record is returned once such a read came up short.
C3_TruncatedFieldFails ==
    result = "returned" => failed_at \notin FixedLengthReads

\* C4: a length read from the file (extension length, subchunk2_size) that
\* exceeds the bytes left is rejected: no record is returned once the read
\* of that many bytes came up short.
C4_LengthPrefixedReadBounded ==
    result = "returned" => failed_at \notin LengthPrefixedReads

\* C5: for a file with subchunk1_size = 18 and two bytes 00 00 between the
\* format fields and "data", the returned record has the "data" tag, the
\* declared payload size and exactly the payload bytes that follow it.
C5_ExtensionSkipped ==
    (result = "returned" /\ IsExt18) =>
        /\ wave_file.subchunk_2_id = Int32(TagData)
        /\ wave_file.subchunk_2_size = Len(stream) - 46
        /\ data = SubSeq(stream, 47, Len(stream))

\* C6: convert_to_int of a 2- or 4-byte span returns the same value on the
\* big-endian and on the little-endian branch, and that value is the span's
\* little-endian interpretation as a signed 32-bit integer.
C6_EndianIndependent ==
    ret.len # 0 =>
        LET span == SubSeq(buffer, 1, ret.len)
        IN  /\ ret.a = LittleEndian(span)
            /\ convert_to_int_on(TRUE, buffer, ret.len) = LittleEndian(span)
            /\ convert_to_int_on(FALSE, buffer, ret.len) = LittleEndian(span)

\* C6 witness: a 4-byte span with its top bit set converted on a big-endian
\* host, giving a negative int.
C6_Witness ==
    /\ ret.len = 4
    /\ host = "big"
    /\ buffer = <<1, 0, 127, 128>>
    /\ ret.a = -2139160575

\* C7: a returned record's payload has exactly subchunk2_size bytes,
\* subchunk2_size is not negative, and the payload is the subchunk2_size
\* bytes of the file that follow the subchunk2_size field.
C7_PayloadExactlySized ==
    result = "returned" =>
        /\ wave_file.subchunk_2_size >= 0
        /\ data_alloc = wave_file.subchunk_2_size
        /\ Len(data) = wave_file.subchunk_2_size
        /\ data = SubSeq(stream, read_from + 1,
                         read_from + wave_file.subchunk_2_size)

\* C8: parsing a canonical file and serialising the returned record field
\* by field in the layout table's order gives back the file's bytes.
C8_RoundTrip ==
    (result = "returned" /\ IsCanonical) =>
        /\ data_alloc = Len(data)
        /\ SerializeHeader(wave_file) \o data = stream

\* C9: the get position never decreases; every read starts where the one
\* before it ended and moves the position by the bytes it extracted; the
\* statements run in program order, the one branch being the lookahead's
\* (an exception out of new[] ends the parse).
C9_ForwardSequentialReads ==
    [][ /\ pos' >= pos
        /\ IF pc \in ReadSteps
           THEN read_from' = pos /\ pos' = pos + gcount'
           ELSE UNCHANGED <<pos, read_from, gcount>>
        /\ \/ pc' = Steps[StepIndex(pc) + 1]
           \/ pc = "lookahead" /\ pc' = "subchunk_2_size"
           \/ pc \in {"alloc_extra", "alloc_data"} /\ pc' = "done"
              /\ result' = "threw"
      ]_vars

\* C9 witness: a parse that took the extension branch, skipped a non-empty
\* extension body, and returned with every read complete.
C9_Witness ==
    /\ result = "returned"
    /\ failed_at = "none"
    /\ extra_size > 0
    /\ pos = Len(stream)
    /\ Len(data) > 0

=============================================================================
